---- MODULE Spec2Model ----
(***************************************************************************)
(* Model of screenplain/parsers/fountain.py: the paragraph classifier     *)
(* (InputParagraph.update_list and its as_* recognisers), the body parser *)
(* (parse_body) and the title page detection of parse.                    *)
(*                                                                         *)
(* A line is a sequence of one-character strings.  The regular            *)
(* expressions of the source are operators that compute what re.match     *)
(* computes, backtracking included.                                       *)
(***************************************************************************)
EXTENDS Integers, Sequences, FiniteSets, TLC

\* Number of input paragraphs classified in one behaviour of Spec.
MaxParagraphs == 3

\* Number of raw input lines of one document in SpecParse.
MaxLines == 4

(***************************************************************************)
(* Characters and the str methods the parser uses.                         *)
(***************************************************************************)
LowerLetters == <<"a","b","c","d","e","f","g","h","i","j","k","l","m",
                  "n","o","p","q","r","s","t","u","v","w","x","y","z">>

UpperLetters == <<"A","B","C","D","E","F","G","H","I","J","K","L","M",
                  "N","O","P","Q","R","S","T","U","V","W","X","Y","Z">>

Digits == {"0","1","2","3","4","5","6","7","8","9"}

Range(s) == {s[i] : i \in DOMAIN s}

IsLower(c) == c \in Range(LowerLetters)

IsUpperChar(c) == c \in Range(UpperLetters)

\* \s of the re module, over the characters a preprocessed line can hold
IsSpace(c) == c \in {" ", "TAB", "CR", "LF"}

\* \w of the re module
IsWord(c) == IsLower(c) \/ IsUpperChar(c) \/ c \in Digits \/ c = "_"

UpperChar(c) ==
    IF IsLower(c)
    THEN UpperLetters[CHOOSE i \in DOMAIN LowerLetters : LowerLetters[i] = c]
    ELSE c

\* str.upper
upper(s) == [i \in DOMAIN s |-> UpperChar(s[i])]

\* str.isupper: at least one cased character and no lower-case one
isupper(s) ==
    /\ \E i \in DOMAIN s : IsUpperChar(s[i])
    /\ \A i \in DOMAIN s : ~IsLower(s[i])

\* s[n:] of Python, n counted from 0
Drop(s, n) == SubSeq(s, n + 1, Len(s))

\* s[:n] of Python
Take(s, n) == SubSeq(s, 1, n)

\* number of leading characters of s that satisfy the class test
RECURSIVE LeadingSpaces(_)
LeadingSpaces(s) ==
    IF s # <<>> /\ IsSpace(Head(s)) THEN 1 + LeadingSpaces(Tail(s)) ELSE 0

RECURSIVE TrailingSpaces(_)
TrailingSpaces(s) ==
    IF s # <<>> /\ IsSpace(s[Len(s)])
    THEN 1 + TrailingSpaces(Take(s, Len(s) - 1))
    ELSE 0

\* str.lstrip()
lstrip(s) == Drop(s, LeadingSpaces(s))

\* str.rstrip()
rstrip(s) == Take(s, Len(s) - TrailingSpaces(s))

\* str.strip()
strip(s) == rstrip(lstrip(s))

\* str.startswith
startswith(s, p) == Len(s) >= Len(p) /\ Take(s, Len(p)) = p

\* str.endswith
endswith(s, p) == Len(s) >= Len(p) /\ Drop(s, Len(s) - Len(p)) = p

TWOSPACE == <<" ", " ">>

\* the absent value of Python, for optional strings: <<>> is None and
\* <<s>> is the string s
None == <<>>

Some(s) == <<s>>

(***************************************************************************)
(* The regular expressions of the module, as re.match computes them.       *)
(* A match result is a record with a field matched; the group fields are   *)
(* meaningful only when matched is TRUE.                                   *)
(***************************************************************************)

\* centered_re = \s*>\s*(.*?)\s*<\s*$ : the first non-blank character is
\* '>' and the last one is '<'; group 1 is what lies between, stripped
centered_re(line) ==
    LET p == LeadingSpaces(line) + 1
        q == Len(line) - TrailingSpaces(line)
    IN  IF p < q /\ line[p] = ">" /\ line[q] = "<"
        THEN [matched |-> TRUE, text |-> strip(SubSeq(line, p + 1, q - 1))]
        ELSE [matched |-> FALSE, text |-> <<>>]

\* dual_dialog_re = ^(.+?)(\s*\^)$ : group 1 is the shortest non-empty
\* prefix that leaves only white space and the final '^'
dual_dialog_re(line) ==
    IF Len(line) >= 2 /\ line[Len(line)] = "^"
    THEN LET before == Take(line, Len(line) - 1)
             k == Len(rstrip(before))
         IN  [matched |-> TRUE,
              character |-> Take(before, IF k >= 1 THEN k ELSE 1)]
    ELSE [matched |-> FALSE, character |-> <<>>]

\* slug_re = (?:(\.)\s*)?(\S.*?)\s*$
slug_re(line) ==
    IF line # <<>> /\ Head(line) = "." /\ lstrip(Tail(line)) # <<>>
    THEN [matched |-> TRUE, period |-> TRUE,
          text |-> rstrip(lstrip(Tail(line)))]
    ELSE IF line # <<>> /\ ~IsSpace(Head(line))
         THEN [matched |-> TRUE, period |-> FALSE, text |-> rstrip(line)]
         ELSE [matched |-> FALSE, period |-> FALSE, text |-> <<>>]

\* the character class [ .] at position n of text
SpaceOrDotAt(text, n) == Len(text) >= n /\ text[n] \in {" ", "."}

\* any(regex.match(text) for regex in slug_regexes)
slug_regexes(text) ==
    \/ /\ \/ startswith(text, <<"I","N","T">>)
          \/ startswith(text, <<"E","X","T">>)
          \/ startswith(text, <<"E","S","T">>)
       /\ SpaceOrDotAt(text, 4)
    \/ /\ startswith(text, <<"I","N","T","/","E","X","T">>)
       /\ SpaceOrDotAt(text, 8)
    \/ /\ startswith(text, <<"I","N","T",".","/","E","X","T">>)
       /\ SpaceOrDotAt(text, 9)
    \/ /\ startswith(text, <<"I","/","E">>)
       /\ SpaceOrDotAt(text, 4)

\* the character class [\w\-.]
IsSceneNumberChar(c) == IsWord(c) \/ c \in {"-", "."}

\* scene_number_re = (.*?)\s*(?:#([\w\-.]+)#)\s*$
scene_number_re(text) ==
    LET q == Len(text) - TrailingSpaces(text)
        hashes == {j \in 1..(q - 1) : text[j] = "#"}
    IN  IF q >= 3 /\ text[q] = "#" /\ hashes # {}
        THEN LET j == CHOOSE h \in hashes : \A g \in hashes : g <= h
                 number == SubSeq(text, j + 1, q - 1)
             IN  IF number # <<>>
                    /\ \A i \in DOMAIN number : IsSceneNumberChar(number[i])
                 THEN [matched |-> TRUE,
                       text |-> rstrip(Take(text, j - 1)),
                       scene_number |-> number]
                 ELSE [matched |-> FALSE, text |-> <<>>, scene_number |-> <<>>]
        ELSE [matched |-> FALSE, text |-> <<>>, scene_number |-> <<>>]

RECURSIVE LeadingHashes(_)
LeadingHashes(s) ==
    IF s # <<>> /\ Head(s) = "#" THEN 1 + LeadingHashes(Tail(s)) ELSE 0

\* section_re = ^(#{1,6})\s*([^#].*)$ : one to six '#', then a text whose
\* first character is not '#'; the white space after the hashes is skipped
\* unless the text would then be empty or start with '#'
section_re(line) ==
    LET h == LeadingHashes(line)
        rest == Drop(line, h)
        w == LeadingSpaces(rest)
        body == Drop(rest, w)
    IN  IF h >= 1 /\ h <= 6 /\ rest # <<>>
        THEN [matched |-> TRUE, hashes |-> h,
              text |-> IF body # <<>> /\ Head(body) # "#"
                       THEN body
                       ELSE Drop(rest, w - 1)]
        ELSE [matched |-> FALSE, hashes |-> 0, text |-> <<>>]

TO_COLON == <<"T", "O", ":">>

\* the tail \s*(.+?)(TO:)?$ of transition_re, applied to what follows the
\* optional '>'
TransitionTail(s) ==
    LET rest == IF lstrip(s) # <<>> THEN lstrip(s) ELSE Drop(s, Len(s) - 1)
    IN  IF Len(rest) >= 4 /\ endswith(rest, TO_COLON)
        THEN [text |-> Take(rest, Len(rest) - 3), to_colon |-> TRUE]
        ELSE [text |-> rest, to_colon |-> FALSE]

\* transition_re = (>?)\s*(.+?)(TO:)?$
transition_re(line) ==
    IF Len(line) >= 2 /\ Head(line) = ">"
    THEN [matched |-> TRUE, greater_than |-> TRUE,
          text |-> TransitionTail(Tail(line)).text,
          to_colon |-> TransitionTail(Tail(line)).to_colon]
    ELSE IF line # <<>>
         THEN [matched |-> TRUE, greater_than |-> FALSE,
               text |-> TransitionTail(line).text,
               to_colon |-> TransitionTail(line).to_colon]
         ELSE [matched |-> FALSE, greater_than |-> FALSE,
               text |-> <<>>, to_colon |-> FALSE]

\* title_page_key_re = ([^:]+):\s*(.*)
title_page_key_re(line) ==
    LET colons == {i \in DOMAIN line : line[i] = ":"}
    IN  IF colons # {} /\ line[1] # ":"
        THEN LET c == CHOOSE i \in colons : \A j \in colons : i <= j
             IN  [matched |-> TRUE, key |-> Take(line, c - 1),
                  value |-> lstrip(Drop(line, c))]
        ELSE [matched |-> FALSE, key |-> <<>>, value |-> <<>>]

\* title_page_value_re = (?:\s{3,}|\t)(.+)
title_page_value_re(line) ==
    LET w == LeadingSpaces(line)
    IN  IF w >= 3 /\ Len(line) > w
        THEN [matched |-> TRUE, value |-> Drop(line, w)]
        ELSE IF w >= 4
             THEN [matched |-> TRUE, value |-> Drop(line, w - 1)]
             ELSE IF Len(line) >= 2 /\ Head(line) = "TAB"
                  THEN [matched |-> TRUE, value |-> Tail(line)]
                  ELSE [matched |-> FALSE, value |-> <<>>]

(***************************************************************************)
(* The element types of screenplain.types and the rich strings of          *)
(* screenplain.richstring, which the parser only constructs.               *)
(***************************************************************************)

\* parse_emphasis(line): the rich string of a source line
parse_emphasis(line) == [rich |-> "emphasis", source |-> line]

\* plain(text): the rich string of a text without emphasis
plain(text) == [rich |-> "plain", source |-> text]

\* _to_rich of a list of lines
to_rich_list(lines) == [i \in DOMAIN lines |-> parse_emphasis(lines[i])]

Slug(line, scene_number) ==
    [type |-> "Slug", line |-> line, scene_number |-> scene_number,
     synopsis |-> None]

Section(text, level) ==
    [type |-> "Section", text |-> text, level |-> level, synopsis |-> None]

Action(lines, centered) ==
    [type |-> "Action", lines |-> lines, centered |-> centered,
     synopsis |-> None]

Dialog(character, lines) ==
    [type |-> "Dialog", character |-> character, lines |-> lines,
     synopsis |-> None]

Transition(line) ==
    [type |-> "Transition", line |-> line, synopsis |-> None]

DualDialog(left, right) ==
    [type |-> "DualDialog", left |-> left, right |-> right]

\* isinstance(element, Dialog)
IsDialog(element) == element.type = "Dialog"

\* hasattr(element, 'set_synopsis')
has_set_synopsis(element) == element.type # "DualDialog"

\* element.set_synopsis(text)
set_synopsis(element, text) == [element EXCEPT !.synopsis = Some(text)]

(***************************************************************************)
(* InputParagraph.  A recogniser returns the element it built (None when   *)
(* it does not apply) together with previous_paragraphs as it leaves it.   *)
(***************************************************************************)
NoResult(previous_paragraphs) ==
    [value |-> None, list |-> previous_paragraphs]

Result(element, previous_paragraphs) ==
    [value |-> Some(element), list |-> previous_paragraphs]

\* list.pop() of a non-empty list: the list without its last element
Pop(list) == Take(list, Len(list) - 1)

Last(list) == list[Len(list)]

as_slug(lines, previous_paragraphs) ==
    IF Len(lines) # 1
    THEN NoResult(previous_paragraphs)
    ELSE LET match == slug_re(lines[1])
             text == upper(match.text)
             number == scene_number_re(text)
         IN  IF ~match.matched
             THEN NoResult(previous_paragraphs)
             ELSE IF ~match.period /\ ~slug_regexes(text)
                  THEN NoResult(previous_paragraphs)
                  ELSE IF number.matched
                       THEN Result(Slug(parse_emphasis(number.text),
                                        Some(plain(number.scene_number))),
                                   previous_paragraphs)
                       ELSE Result(Slug(parse_emphasis(text), None),
                                   previous_paragraphs)

as_section(lines, previous_paragraphs) ==
    IF Len(lines) # 1
    THEN NoResult(previous_paragraphs)
    ELSE LET match == section_re(lines[1])
         IN  IF ~match.matched
             THEN NoResult(previous_paragraphs)
             ELSE Result(Section(parse_emphasis(match.text), match.hashes),
                         previous_paragraphs)

as_centered_action(lines, previous_paragraphs) ==
    IF ~(\A i \in DOMAIN lines : centered_re(lines[i]).matched)
    THEN NoResult(previous_paragraphs)
    ELSE Result(Action([i \in DOMAIN lines |->
                           parse_emphasis(centered_re(lines[i]).text)],
                       TRUE),
                previous_paragraphs)

create_dialog(lines, character) ==
    Dialog(parse_emphasis(character),
           [i \in 1..(Len(lines) - 1) |-> parse_emphasis(strip(lines[i + 1]))])

\* as_dialog reading previous_paragraphs[-1] where the code pops it
as_dialog_keeps_previous(lines, previous_paragraphs) ==
    IF Len(lines) < 2
    THEN NoResult(previous_paragraphs)
    ELSE LET character == lines[1]
             dual_match == dual_dialog_re(character)
         IN  IF ~isupper(character) \/ endswith(character, TWOSPACE)
             THEN NoResult(previous_paragraphs)
             ELSE IF /\ previous_paragraphs # <<>>
                     /\ IsDialog(Last(previous_paragraphs))
                     /\ dual_match.matched
                  THEN Result(DualDialog(Last(previous_paragraphs),
                                  create_dialog(lines, dual_match.character)),
                              previous_paragraphs)
                  ELSE Result(create_dialog(lines, character),
                              previous_paragraphs)

\* as_dialog without the test of the two trailing spaces
as_dialog_ignores_escape(lines, previous_paragraphs) ==
    IF Len(lines) < 2
    THEN NoResult(previous_paragraphs)
    ELSE LET character == lines[1]
             dual_match == dual_dialog_re(character)
         IN  IF ~isupper(character)
             THEN NoResult(previous_paragraphs)
             ELSE IF /\ previous_paragraphs # <<>>
                     /\ IsDialog(Last(previous_paragraphs))
                     /\ dual_match.matched
                  THEN Result(DualDialog(Last(previous_paragraphs),
                                  create_dialog(lines, dual_match.character)),
                              Pop(previous_paragraphs))
                  ELSE Result(create_dialog(lines, character),
                              previous_paragraphs)

\* as_dialog without the isinstance test of the previous element
as_dialog_merges_any(lines, previous_paragraphs) ==
    IF Len(lines) < 2
    THEN NoResult(previous_paragraphs)
    ELSE LET character == lines[1]
             dual_match == dual_dialog_re(character)
         IN  IF ~isupper(character) \/ endswith(character, TWOSPACE)
             THEN NoResult(previous_paragraphs)
             ELSE IF /\ previous_paragraphs # <<>>
                     /\ dual_match.matched
                  THEN Result(DualDialog(Last(previous_paragraphs),
                                  create_dialog(lines, dual_match.character)),
                              Pop(previous_paragraphs))
                  ELSE Result(create_dialog(lines, character),
                              previous_paragraphs)

as_dialog(lines, previous_paragraphs) ==
    IF Len(lines) < 2
    THEN NoResult(previous_paragraphs)
    ELSE LET character == lines[1]
             dual_match == dual_dialog_re(character)
         IN  IF ~isupper(character) \/ endswith(character, TWOSPACE)
             THEN NoResult(previous_paragraphs)
             ELSE IF /\ previous_paragraphs # <<>>
                     /\ IsDialog(Last(previous_paragraphs))
                     /\ dual_match.matched
                  THEN Result(DualDialog(Last(previous_paragraphs),
                                  create_dialog(lines, dual_match.character)),
                              Pop(previous_paragraphs))
                  ELSE Result(create_dialog(lines, character),
                              previous_paragraphs)

\* as_transition without the upper() of the forced transition
as_transition_keeps_case(lines, previous_paragraphs) ==
    IF Len(lines) # 1
    THEN NoResult(previous_paragraphs)
    ELSE LET match == transition_re(lines[1])
         IN  IF ~match.matched
             THEN NoResult(previous_paragraphs)
             ELSE IF match.greater_than
                  THEN Result(Transition(parse_emphasis(
                                  match.text \o
                                  (IF match.to_colon THEN TO_COLON ELSE <<>>))),
                              previous_paragraphs)
                  ELSE IF isupper(match.text) /\ match.to_colon
                       THEN Result(Transition(parse_emphasis(
                                       match.text \o TO_COLON)),
                                   previous_paragraphs)
                       ELSE NoResult(previous_paragraphs)

as_transition(lines, previous_paragraphs) ==
    IF Len(lines) # 1
    THEN NoResult(previous_paragraphs)
    ELSE LET match == transition_re(lines[1])
         IN  IF ~match.matched
             THEN NoResult(previous_paragraphs)
             ELSE IF match.greater_than
                  THEN Result(Transition(parse_emphasis(
                                  upper(match.text) \o
                                  (IF match.to_colon THEN TO_COLON ELSE <<>>))),
                              previous_paragraphs)
                  ELSE IF isupper(match.text) /\ match.to_colon
                       THEN Result(Transition(parse_emphasis(
                                       match.text \o TO_COLON)),
                                   previous_paragraphs)
                       ELSE NoResult(previous_paragraphs)

as_action(lines, previous_paragraphs) ==
    Result(Action([i \in DOMAIN lines |-> parse_emphasis(rstrip(lines[i]))],
                  FALSE),
           previous_paragraphs)

\* as_synopsis without the lstrip() of the synopsis text
as_synopsis_keeps_blanks(lines, previous_paragraphs) ==
    IF /\ Len(lines) = 1
       /\ startswith(lines[1], <<"=">>)
       /\ previous_paragraphs # <<>>
       /\ has_set_synopsis(Last(previous_paragraphs))
    THEN Result(set_synopsis(Last(previous_paragraphs), Tail(lines[1])),
                Pop(previous_paragraphs))
    ELSE NoResult(previous_paragraphs)

\* as_synopsis with pop(0) for pop(): the first element gets the synopsis
\* and moves to the end
as_synopsis_pops_first(lines, previous_paragraphs) ==
    IF /\ Len(lines) = 1
       /\ startswith(lines[1], <<"=">>)
       /\ previous_paragraphs # <<>>
       /\ has_set_synopsis(Last(previous_paragraphs))
    THEN Result(set_synopsis(Head(previous_paragraphs),
                             lstrip(Tail(lines[1]))),
                Tail(previous_paragraphs))
    ELSE NoResult(previous_paragraphs)

\* as_synopsis with previous_paragraphs[-1] for pop(): the element stays in
\* the list, gets the synopsis, and is appended a second time
as_synopsis_without_pop(lines, previous_paragraphs) ==
    IF /\ Len(lines) = 1
       /\ startswith(lines[1], <<"=">>)
       /\ previous_paragraphs # <<>>
       /\ has_set_synopsis(Last(previous_paragraphs))
    THEN Result(set_synopsis(Last(previous_paragraphs),
                             lstrip(Tail(lines[1]))),
                Append(Pop(previous_paragraphs),
                       set_synopsis(Last(previous_paragraphs),
                                    lstrip(Tail(lines[1])))))
    ELSE NoResult(previous_paragraphs)

as_synopsis(lines, previous_paragraphs) ==
    IF /\ Len(lines) = 1
       /\ startswith(lines[1], <<"=">>)
       /\ previous_paragraphs # <<>>
       /\ has_set_synopsis(Last(previous_paragraphs))
    THEN Result(set_synopsis(Last(previous_paragraphs),
                             lstrip(Tail(lines[1]))),
                Pop(previous_paragraphs))
    ELSE NoResult(previous_paragraphs)

\* the or-chain with as_transition tried before as_slug
RuleNames_transition_first ==
    <<"synopsis", "section", "transition", "slug", "centered_action",
      "dialog", "action">>

\* the recognisers in the order of the or-chain of update_list
RuleNames ==
    <<"synopsis", "section", "slug", "centered_action", "dialog",
      "transition", "action">>

Recognise(name, lines, previous_paragraphs) ==
    CASE name = "synopsis" -> as_synopsis(lines, previous_paragraphs)
      [] name = "section" -> as_section(lines, previous_paragraphs)
      [] name = "slug" -> as_slug(lines, previous_paragraphs)
      [] name = "centered_action" ->
             as_centered_action(lines, previous_paragraphs)
      [] name = "dialog" -> as_dialog(lines, previous_paragraphs)
      [] name = "transition" -> as_transition(lines, previous_paragraphs)
      [] OTHER -> as_action(lines, previous_paragraphs)

\* a or b or ... : the operands are evaluated from the left, each on the
\* list as the operands before it left it, until one is not None
RECURSIVE OrChain(_, _, _)
OrChain(k, lines, previous_paragraphs) ==
    LET r == Recognise(RuleNames[k], lines, previous_paragraphs)
    IN  IF r.value # None \/ k = Len(RuleNames)
        THEN [rule |-> RuleNames[k], value |-> r.value, list |-> r.list]
        ELSE OrChain(k + 1, lines, r.list)

\* InputParagraph.update_list: the list after the append, and the
\* recogniser that supplied the appended element
update_list(lines, previous_paragraphs) ==
    LET r == OrChain(1, lines, previous_paragraphs)
    IN  [rule |-> r.rule, list |-> Append(r.list, r.value[1])]

(***************************************************************************)
(* The module functions: _preprocess_line, _is_blank, parse_title_page,    *)
(* parse_body and parse.                                                   *)
(***************************************************************************)
TabSize == 4

\* str.expandtabs(TabSize); col is the column of the next character
RECURSIVE ExpandTabsFrom(_, _)
ExpandTabsFrom(s, col) ==
    IF s = <<>>
    THEN <<>>
    ELSE IF Head(s) = "TAB"
         THEN [i \in 1..(TabSize - (col % TabSize)) |-> " "]
              \o ExpandTabsFrom(Tail(s), 0)
         ELSE IF Head(s) \in {"CR", "LF"}
              THEN <<Head(s)>> \o ExpandTabsFrom(Tail(s), 0)
              ELSE <<Head(s)>> \o ExpandTabsFrom(Tail(s), col + 1)

\* str.rstrip('\r\n')
RECURSIVE RstripEol(_)
RstripEol(s) ==
    IF s # <<>> /\ s[Len(s)] \in {"CR", "LF"}
    THEN RstripEol(Take(s, Len(s) - 1))
    ELSE s

preprocess_line(raw_line) == RstripEol(ExpandTabsFrom(raw_line, 0))

is_blank(line) == line = <<>>

\* result.setdefault(key, []).append(value) on a dict
SetDefaultAppend(result, key, value) ==
    IF key \in DOMAIN result
    THEN [result EXCEPT ![key] = Append(@, value)]
    ELSE [k \in DOMAIN result \cup {key} |->
             IF k = key THEN <<value>> ELSE result[k]]

EmptyDict == [k \in {} |-> <<>>]

\* the return values of parse_title_page: None, or a dict
TitlePageNone == [none |-> TRUE, dict |-> EmptyDict]

TitlePageDict(result) == [none |-> FALSE, dict |-> result]

\* parse_title_page with the iterator at lines[i]: ExpectKey is the top of
\* the while loop on line i, ExpectValue the for loop over the continuation
\* lines of key
RECURSIVE ExpectKey(_, _, _), ExpectValue(_, _, _, _)
ExpectKey(lines, i, result) ==
    IF i > Len(lines)
    THEN TitlePageDict(result)
    ELSE LET key_match == title_page_key_re(lines[i])
         IN  IF ~key_match.matched
             THEN TitlePageNone
             ELSE IF key_match.value # <<>>
                  THEN ExpectKey(lines, i + 1,
                           SetDefaultAppend(result, key_match.key,
                                            key_match.value))
                  ELSE ExpectValue(lines, i + 1, key_match.key, result)

ExpectValue(lines, i, key, result) ==
    IF i > Len(lines)
    THEN TitlePageDict(result)
    ELSE LET value_match == title_page_value_re(lines[i])
         IN  IF ~value_match.matched
             THEN ExpectKey(lines, i, result)
             ELSE ExpectValue(lines, i + 1, key,
                      SetDefaultAppend(result, key, value_match.value))

parse_title_page(lines) == ExpectKey(lines, 1, EmptyDict)

\* the truth value of what parse_title_page returned
Truthy(title) == ~title.none /\ DOMAIN title.dict # {}

\* takewhile(lambda line: line != '', source): the lines taken, and the
\* number of lines the generator has handed out, the first blank included
TakeWhileNotBlank(source) ==
    LET blanks == {i \in DOMAIN source : is_blank(source[i])}
    IN  IF blanks = {}
        THEN [taken |-> source, consumed |-> Len(source)]
        ELSE LET b == CHOOSE i \in blanks : \A j \in blanks : i <= j
             IN  [taken |-> Take(source, b - 1), consumed |-> b]

\* the chain without the blank line between the two parts
Chain_without_blank(title_page_lines, source) == title_page_lines \o source

\* itertools.chain(title_page_lines, [''], source)
Chain(title_page_lines, source) == title_page_lines \o << <<>> >> \o source

\* the stream parse hands to parse_body
BodySource(source) ==
    LET leading == TakeWhileNotBlank(source)
        remaining == Drop(source, leading.consumed)
    IN  IF Truthy(parse_title_page(leading.taken))
        THEN remaining
        ELSE Chain(leading.taken, remaining)

\* number of leading blank lines of a stream
RECURSIVE LeadingBlanks(_)
LeadingBlanks(source) ==
    IF source # <<>> /\ is_blank(Head(source))
    THEN 1 + LeadingBlanks(Tail(source))
    ELSE 0

RECURSIVE LeadingNonBlanks(_)
LeadingNonBlanks(source) ==
    IF source # <<>> /\ ~is_blank(Head(source))
    THEN 1 + LeadingNonBlanks(Tail(source))
    ELSE 0

\* the next group of itertools.groupby(source, _is_blank) that is not a
\* group of blank lines, and the stream after it
NextGroup(source) ==
    LET rest == Drop(source, LeadingBlanks(source))
        n == LeadingNonBlanks(rest)
    IN  [lines |-> Take(rest, n), rest |-> Drop(rest, n)]

HasGroup(source) == \E i \in DOMAIN source : ~is_blank(source[i])

\* parse_body as a function of the whole stream
RECURSIVE ParseBodyFrom(_, _)
ParseBodyFrom(source, list) ==
    IF ~HasGroup(source)
    THEN list
    ELSE ParseBodyFrom(NextGroup(source).rest,
                       update_list(NextGroup(source).lines, list).list)

parse_body(source) == ParseBodyFrom(source, <<>>)

(***************************************************************************)
(* The inputs of the model.                                                *)
(***************************************************************************)

\* the input paragraphs (lists of preprocessed lines) a step of Spec
\* classifies
InputParagraphs ==
    {<<<<"A","L","I","C","E">>, <<"h","i">>>>,
     <<<<"B","O","B"," ","^">>, <<"h","e","y">>>>,
     <<<<"C","A","T","^">>, <<" ","y","o"," ">>>>,
     <<<<"B","O","B"," ","^"," "," ">>, <<"h","e","y">>>>,
     <<<<">","A","<"," "," ">>, <<">","b","<">>>>,
     <<<<"=","A"," ","t","e","n","s","e">>>>,
     <<<<"="," "," ","x">>>>,
     <<<<"I","N","T","."," ","H","O","U","S","E">>>>,
     <<<<"I","N","T","."," ","X"," ","T","O",":">>>>,
     <<<<".","x"," ","#","1","A","#">>>>,
     <<<<"#"," ","O","n","e">>>>,
     <<<<">"," ","f","a","d","e">>>>,
     <<<<">","c","u","t"," ","T","O",":">>>>,
     <<<<"C","U","T"," ","T","O",":">>>>,
     <<<<" ",">","f","a","d","e">>>>,
     <<<<" ",">"," ","C","U","T"," ","T","O",":">>>>,
     <<<<">">>>>,
     <<<<">"," "," ">>>>,
     <<<<">"," ","x"," ","<">>>>,
     <<<<"h","e","l","l","o"," "," ">>>>}

\* the raw lines the documents of SpecParse are made of
RawLines ==
    {<<>>,
     <<"K",":"," ","v","LF">>,
     <<"K",":","CR","LF">>,
     <<" "," "," ","v","LF">>,
     <<"TAB","w","LF">>,
     <<"x","LF">>,
     <<"A","LF">>}

Documents == UNION {[1..n -> RawLines] : n \in 0..MaxLines}

(***************************************************************************)
(* The state.                                                              *)
(*   pc          where the program is: "start" before parse runs, "body"   *)
(*               in the loop of parse_body, "done" after its return, and   *)
(*               "classify" when update_list is driven paragraph by        *)
(*               paragraph                                                 *)
(*   input       the raw lines handed to parse                             *)
(*   title_page  what parse_title_page returned                            *)
(*   body        the lines parse_body has not read yet                     *)
(*   paragraphs  the output list                                           *)
(*   prev        the output list before the last update_list               *)
(*   groups      the input paragraphs classified so far                    *)
(*   kinds       for each of them, the recogniser that supplied the        *)
(*               element                                                   *)
(*   created     for each element of paragraphs, the index in groups of    *)
(*               the input paragraph that constructed it                   *)
(***************************************************************************)
VARIABLES pc, input, title_page, body, paragraphs, prev, groups, kinds,
          created

vars == <<pc, input, title_page, body, paragraphs, prev, groups, kinds,
          created>>

\* the body of the loop of parse_body for one input paragraph:
\* InputParagraph(lines).update_list(paragraphs)
Classify(lines) ==
    LET r == update_list(lines, paragraphs)
    IN  /\ paragraphs' = r.list
        /\ prev' = paragraphs
        /\ groups' = Append(groups, lines)
        /\ kinds' = Append(kinds, r.rule)
        /\ created' = Append(Take(created, Len(r.list) - 1),
                             IF r.rule = "synopsis"
                             THEN Last(created)
                             ELSE Len(groups) + 1)

NoOutput ==
    /\ paragraphs = <<>>
    /\ prev = <<>>
    /\ groups = <<>>
    /\ kinds = <<>>
    /\ created = <<>>

\* update_list applied to one more input paragraph
UpdateList ==
    /\ pc = "classify"
    /\ Len(groups) < MaxParagraphs
    /\ \E lines \in InputParagraphs : Classify(lines)
    /\ UNCHANGED <<pc, input, title_page, body>>

Init ==
    /\ pc = "classify"
    /\ input = <<>>
    /\ title_page = TitlePageNone
    /\ body = <<>>
    /\ NoOutput

Next == UpdateList

Spec == Init /\ [][Next]_vars

\* parse up to its call of parse_body
Parse ==
    /\ pc = "start"
    /\ LET source == [i \in DOMAIN input |-> preprocess_line(input[i])]
       IN  /\ title_page' =
                  parse_title_page(TakeWhileNotBlank(source).taken)
           /\ body' = BodySource(source)
    /\ pc' = "body"
    /\ UNCHANGED <<input, paragraphs, prev, groups, kinds, created>>

\* one turn of the loop of parse_body
ParseBodyStep ==
    /\ pc = "body"
    /\ HasGroup(body)
    /\ Classify(NextGroup(body).lines)
    /\ body' = NextGroup(body).rest
    /\ UNCHANGED <<pc, input, title_page>>

\* the return of parse_body
ParseBodyReturn ==
    /\ pc = "body"
    /\ ~HasGroup(body)
    /\ pc' = "done"
    /\ body' = <<>>
    /\ UNCHANGED <<input, title_page, paragraphs, prev, groups, kinds,
                   created>>

InitParse ==
    /\ pc = "start"
    /\ input \in Documents
    /\ title_page = TitlePageNone
    /\ body = <<>>
    /\ NoOutput

NextParse == Parse \/ ParseBodyStep \/ ParseBodyReturn

SpecParse == InitParse /\ [][NextParse]_vars

(***************************************************************************)
(* Properties.  In a state reached by a classification step, Last(groups)  *)
(* is the input paragraph of the step, prev the output list before it and  *)
(* paragraphs the output list after it.                                    *)
(***************************************************************************)
Stepped == groups # <<>>

LastLines == Last(groups)

LastKind == Last(kinds)

\* a character line with the dual dialogue marker: two or more lines, the
\* first upper-case, not ending with two spaces, ending with '^'
MarkedDialog(lines) ==
    /\ Len(lines) >= 2
    /\ isupper(lines[1])
    /\ ~endswith(lines[1], TWOSPACE)
    /\ lines[1][Len(lines[1])] = "^"

\* the character line without its white space and '^' suffix
WithoutMarker(line) == rstrip(Take(line, Len(line) - 1))

\* the lines after the character line, stripped, as rich strings
SpokenLines(lines) ==
    [i \in 1..(Len(lines) - 1) |-> parse_emphasis(strip(lines[i + 1]))]

\* C1: when the last output element is a Dialog, a marked dialogue
\* paragraph removes it and appends one DualDialog, whose left is the
\* removed Dialog and whose right is the Dialog of the new paragraph with
\* the marker stripped from the character name; the length is unchanged.
C1_DualDialogMerge ==
    (Stepped /\ prev # <<>> /\ IsDialog(Last(prev))
        /\ MarkedDialog(LastLines))
    => /\ Len(paragraphs) = Len(prev)
       /\ Pop(paragraphs) = Pop(prev)
       /\ Last(paragraphs) =
              DualDialog(Last(prev),
                         Dialog(parse_emphasis(WithoutMarker(LastLines[1])),
                                SpokenLines(LastLines)))

C1_Witness ==
    /\ Stepped /\ prev # <<>> /\ IsDialog(Last(prev))
    /\ MarkedDialog(LastLines)
    /\ Len(prev) >= 2
    /\ Last(paragraphs).type = "DualDialog"
    /\ Last(paragraphs).right.character # parse_emphasis(LastLines[1])

\* C2: when the last output element supports synopsis attachment, a
\* one-line paragraph starting with '=' appends nothing: same length, same
\* element at the last position, its synopsis the line without the '=' and
\* the white space after it.
C2_SynopsisAttach ==
    (Stepped /\ prev # <<>> /\ has_set_synopsis(Last(prev))
        /\ Len(LastLines) = 1 /\ startswith(LastLines[1], <<"=">>))
    => /\ Len(paragraphs) = Len(prev)
       /\ Pop(paragraphs) = Pop(prev)
       /\ Last(paragraphs) =
              [Last(prev) EXCEPT
                  !.synopsis = Some(lstrip(Tail(LastLines[1])))]

C2_Witness ==
    /\ Stepped /\ prev # <<>> /\ has_set_synopsis(Last(prev))
    /\ Len(LastLines) = 1 /\ startswith(LastLines[1], <<"=">>)
    /\ IsSpace(LastLines[1][2])
    /\ Last(paragraphs).type = "Slug"
    /\ Last(paragraphs).synopsis = Some(<<"x">>)

\* the precedence order the classifier is documented to follow
PrecedenceOrder ==
    <<"synopsis", "section", "slug", "centered_action", "dialog",
      "transition", "action">>

Matches(k, lines, list) ==
    Recognise(PrecedenceOrder[k], lines, list).value # None

FirstMatch(lines, list) ==
    CHOOSE k \in DOMAIN PrecedenceOrder :
        /\ Matches(k, lines, list)
        /\ \A j \in 1..(k - 1) : ~Matches(j, lines, list)

\* C5: the outcome of a paragraph is that of the first recogniser, in the
\* order synopsis, section, slug, centered action, dialog, transition,
\* action, whose condition holds, and of no later one; a line that is
\* both a slug and a transition yields a Slug.
C5_FirstRuleWins ==
    Stepped =>
        LET k == FirstMatch(LastLines, prev)
            r == Recognise(PrecedenceOrder[k], LastLines, prev)
        IN  /\ LastKind = PrecedenceOrder[k]
            /\ paragraphs = Append(r.list, r.value[1])
            /\ (Matches(3, LastLines, prev) /\ Matches(6, LastLines, prev))
                   => Last(paragraphs).type = "Slug"

C5_Witness ==
    /\ Stepped
    /\ Matches(3, LastLines, prev)
    /\ Matches(6, LastLines, prev)
    /\ Last(paragraphs).type = "Slug"

\* C6: a paragraph of two or more lines whose first line ends with two
\* spaces yields an Action, never a Dialog or a DualDialog, and leaves the
\* previous output element in place.
C6_TwoSpaceEscape ==
    (Stepped /\ Len(LastLines) >= 2 /\ endswith(LastLines[1], TWOSPACE))
    => /\ Pop(paragraphs) = prev
       /\ Last(paragraphs).type = "Action"
       /\ LastKind \in {"centered_action", "action"}

C6_Witness ==
    /\ Stepped /\ Len(LastLines) >= 2 /\ endswith(LastLines[1], TWOSPACE)
    /\ isupper(LastLines[1])
    /\ prev # <<>> /\ IsDialog(Last(prev))
    /\ Last(paragraphs).type = "Action"

\* the recognisers tried before as_transition all return None
EarlierRulesFail(lines, list) == \A k \in 1..5 : ~Matches(k, lines, list)

AfterGreaterThan(line) ==
    IF lstrip(Tail(line)) # <<>>
    THEN lstrip(Tail(line))
    ELSE <<line[Len(line)]>>

C9_TailOnly ==
    [][\/ /\ Len(paragraphs') = Len(paragraphs) + 1
          /\ Pop(paragraphs') = paragraphs
       \/ /\ paragraphs # <<>>
          /\ Len(paragraphs') = Len(paragraphs)
          /\ Pop(paragraphs') = Pop(paragraphs)]_vars

C9_Witness ==
    /\ Stepped
    /\ Len(prev) >= 2
    /\ Len(paragraphs) = Len(prev)
    /\ Last(paragraphs) # Last(prev)
    /\ Pop(paragraphs) = Pop(prev)

\* C10: the halves of every DualDialog are plain Dialogs; a marked
\* dialogue paragraph that follows a DualDialog is appended as a plain
\* Dialog with its character line as written, and the DualDialog stays.
C10_NoNestedDualDialog ==
    /\ \A i \in DOMAIN paragraphs :
           paragraphs[i].type = "DualDialog" =>
               /\ paragraphs[i].left.type = "Dialog"
               /\ paragraphs[i].right.type = "Dialog"
    /\ (Stepped /\ prev # <<>> /\ Last(prev).type = "DualDialog"
           /\ MarkedDialog(LastLines))
       => paragraphs =
              Append(prev, Dialog(parse_emphasis(LastLines[1]),
                                  SpokenLines(LastLines)))

C10_Witness ==
    /\ Stepped /\ prev # <<>> /\ Last(prev).type = "DualDialog"
    /\ MarkedDialog(LastLines)
    /\ Last(paragraphs).type = "Dialog"
    /\ paragraphs[Len(paragraphs) - 1].type = "DualDialog"

\* C7 as stated: an element of the output list is changed or replaced only
\* by the paragraph that immediately follows the paragraph that created it.
C7_AsStated ==
    [][\A i \in DOMAIN paragraphs :
           paragraphs'[i] # paragraphs[i] =>
               Len(groups') = created[i] + 1]_vars

\* C7 amended: an element is changed only by synopsis attachment or by
\* dual dialogue replacement, and only while it is the last element of
\* the list: every paragraph classified between its creation and the
\* change attached a synopsis to it.
C7_OnlyWhileLast ==
    [][\A i \in DOMAIN paragraphs :
           paragraphs'[i] # paragraphs[i] =>
               /\ i = Len(paragraphs)
               /\ \A k \in (created[i] + 1)..Len(groups) :
                      kinds[k] = "synopsis"
               /\ \/ /\ Last(kinds') = "synopsis"
                     /\ paragraphs'[i] =
                            [paragraphs[i] EXCEPT
                                !.synopsis = paragraphs'[i].synopsis]
                  \/ /\ Last(kinds') = "dialog"
                     /\ paragraphs[i].type = "Dialog"
                     /\ paragraphs'[i].type = "DualDialog"
                     /\ paragraphs'[i].left = paragraphs[i]]_vars

C7_Witness ==
    /\ Stepped
    /\ Len(paragraphs) = Len(prev)
    /\ Last(paragraphs) # Last(prev)
    /\ Last(created) + 1 < Len(groups)

\* the preprocessed lines of the input
Source == [i \in DOMAIN input |-> preprocess_line(input[i])]

LeadingBlock == TakeWhileNotBlank(Source).taken

AfterFirstBlank == Drop(Source, TakeWhileNotBlank(Source).consumed)

NotBlank(line) == ~is_blank(line)

RECURSIVE Flatten(_)
Flatten(list) ==
    IF list = <<>> THEN <<>> ELSE Head(list) \o Flatten(Tail(list))

\* C3 as stated: whenever parse_title_page succeeds on the leading block,
\* with an empty map too, the elements are built from the lines after the
\* first blank line only.
C3_AsStated ==
    (pc = "done" /\ ~title_page.none)
    => paragraphs = parse_body(AfterFirstBlank)

\* C4: whenever parse_title_page fails, parse returns what parse_body
\* returns on the whole preprocessed input, and every non-blank line is in
\* exactly one input paragraph, in the original order.
C4_FallbackKeepsAllLines ==
    (pc = "done" /\ title_page.none)
    => /\ paragraphs = parse_body(Source)
       /\ Flatten(groups) = SelectSeq(Source, NotBlank)

C4_Witness ==
    /\ pc = "done"
    /\ title_page.none
    /\ LeadingBlock # <<>>
    /\ AfterFirstBlank # <<>>
    /\ Len(groups) >= 2
    /\ Len(Last(groups)) >= 2

====
